---- MODULE Spec2Model ----
(***************************************************************************)
(* Model of the SSD1306 OLED driver of src/ssd1306_oled.cpp: the caller's  *)
(* framebuffer, the pixel addressing/rotation engine, the bitmap blit and  *)
(* the command/data stream the driver puts on the I2C bus.                 *)
(*                                                                         *)
(* One action models one public method call, run to completion.  The       *)
(* variables bus, ret, errlog and touched describe the most recent call    *)
(* only; call and pre record which call it was and the memory before it.   *)
(***************************************************************************)
EXTENDS Integers, Sequences, FiniteSets, TLC

VARIABLES
  OLED_WIDTH,   \* _OLED_WIDTH  = bufferWidth  = WIDTH   (set once by the constructor)
  OLED_HEIGHT,  \* _OLED_HEIGHT = bufferHeight = HEIGHT  (set once by the constructor)
  OLEDbuffer,   \* the stored buffer handle: NullPtr or the name of a caller array
  heap,         \* the caller's arrays: name -> sequence of bytes (index k is heap[n][k+1])
  declSize,     \* sizeOfBuffer of the last accepted OLEDSetBufferPtr call (0: none)
  rotation,     \* SSD1306_graphics rotation, 0..3
  halted,       \* TRUE once an invalid memory access has faulted the processor
  ncalls,       \* number of method calls made so far
  call,         \* the most recent call and its arguments
  ret,          \* what the most recent call returned, by name ("void": nothing)
  errlog,       \* number of the error message the most recent call printed (0: none)
  bus,          \* the I2C writes of the most recent call, in order
  touched,      \* the framebuffer indices the most recent call read or wrote
  pixcalls,     \* the drawPixel calls of the most recent call, in order: <<x, y, color>>
  pre,          \* heap and handle as they were when the most recent call began
  loop          \* position of an OLEDBufferScreen call that is run statement by statement

vars == <<OLED_WIDTH, OLED_HEIGHT, OLEDbuffer, heap, declSize, rotation, halted,
          ncalls, call, ret, errlog, bus, touched, pixcalls, pre, loop>>

-----------------------------------------------------------------------------
(* Bounds of the exploration. *)

\* Number of method calls explored after construction.
MaxCalls == 3

\* Panel geometries <<width, height>> the driver is constructed with: the three
\* supported heights and one the switch statements do not list.
Geometries == { <<8, 16>>, <<4, 32>>, <<4, 64>>, <<4, 48>> }

NullPtr == "null"

\* The caller's arrays: "exact" has the constructed geometry's size, "small"
\* is an 8-byte array (the size of an 8x8 buffer).
BufferNames == {"exact", "small"}

\* Contents of a caller array before the driver touches it.
InitByte(k) == (165 + 37 * k) % 256

InitArray(n) == [k \in 1..n |-> InitByte(k - 1)]

-----------------------------------------------------------------------------
(* Constructor: derived geometry fields. *)

PAGE_NUM     == OLED_HEIGHT \div 8
bufferWidth  == OLED_WIDTH
bufferHeight == OLED_HEIGHT
WIDTH        == OLED_WIDTH
HEIGHT       == OLED_HEIGHT

\* SSD1306_graphics::_width / _height: the logical size under the rotation.
CurWidth  == IF rotation \in {1, 3} THEN HEIGHT ELSE WIDTH
CurHeight == IF rotation \in {1, 3} THEN WIDTH ELSE HEIGHT

-----------------------------------------------------------------------------
(* C integer helpers. *)

\* C division and remainder truncate toward zero.
CDiv(a, b) == IF a >= 0 THEN a \div b ELSE -((-a) \div b)
CMod(a, b) == a - b * CDiv(a, b)

U8(v)  == v % 256
U16(v) == v % 65536

Bit(b, n) == (b \div (2 ^ n)) % 2

\* Bitwise operators on bytes, bit by bit; T is the truth table of one bit.
RECURSIVE BitFold(_, _, _, _)
BitFold(T, a, b, n) ==
  IF n > 7 THEN 0
  ELSE T[Bit(a, n)][Bit(b, n)] * (2 ^ n) + BitFold(T, a, b, n + 1)

OrBit     == [p \in {0, 1} |-> [q \in {0, 1} |-> IF p = 1 \/ q = 1 THEN 1 ELSE 0]]
AndNotBit == [p \in {0, 1} |-> [q \in {0, 1} |-> IF p = 1 /\ q = 0 THEN 1 ELSE 0]]
XorBit    == [p \in {0, 1} |-> [q \in {0, 1} |-> IF p # q THEN 1 ELSE 0]]

Or8(a, b)     == BitFold(OrBit, a, b, 0)
AndNot8(a, b) == BitFold(AndNotBit, a, b, 0)
Xor8(a, b)    == BitFold(XorBit, a, b, 0)

-----------------------------------------------------------------------------
(* Call records. *)

\* a, b, c, d: integer arguments; s: a name argument (colour, buffer, bitmap);
\* f: a boolean argument.  Unused fields are 0, "" and FALSE.
Call(op, a, b, c, d, s, f) ==
  [op |-> op, a |-> a, b |-> b, c |-> c, d |-> d, s |-> s, f |-> f]

NoCall == Call("constructor", 0, 0, 0, 0, "", FALSE)

Snapshot == [heap |-> heap, OLEDbuffer |-> OLEDbuffer, rotation |-> rotation]

\* A method can be called while the processor runs and the exploration
\* bound is not reached.
CanCall == ~halted /\ ncalls < MaxCalls

\* Bookkeeping common to every call.
Begin(c) ==
  /\ call' = c
  /\ pre' = Snapshot
  /\ ncalls' = ncalls + 1
  /\ UNCHANGED <<OLED_WIDTH, OLED_HEIGHT, loop>>

-----------------------------------------------------------------------------
(* Constructor. *)

\* No OLEDBufferScreen call is being run statement by statement.  pc: "idle",
\* "outer" (at the test of the row loop), "inner" (at the test of the column
\* loop), "done" (returned) or "fault"; x, y, w, h: the arguments; ty, tx: the
\* loop counters; sent: the <<ty, tx>> for which a data write was issued;
\* last: the most recent data write <<ty, tx, offset, byte>>; resent: a data
\* write was issued for a <<ty, tx>> that already had one; ordered: every data
\* write had a larger source offset than the one before it.
NoLoop == [pc |-> "idle", x |-> 0, y |-> 0, w |-> 0, h |-> 0, ty |-> 0, tx |-> 0,
           sent |-> {}, last |-> <<>>, resent |-> FALSE, ordered |-> TRUE]

Init ==
  /\ \E g \in Geometries :
       /\ OLED_WIDTH = g[1]
       /\ OLED_HEIGHT = g[2]
       /\ heap = [n \in BufferNames |->
                    IF n = "exact" THEN InitArray(g[1] * (g[2] \div 8))
                    ELSE InitArray(8)]
       /\ pre = [heap |-> [n \in BufferNames |->
                              IF n = "exact" THEN InitArray(g[1] * (g[2] \div 8))
                              ELSE InitArray(8)],
                 OLEDbuffer |-> NullPtr, rotation |-> 0]
  /\ OLEDbuffer = NullPtr
  /\ declSize = 0
  /\ rotation = 0
  /\ halted = FALSE
  /\ ncalls = 0
  /\ call = NoCall
  /\ ret = "void"
  /\ errlog = 0
  /\ bus = <<>>
  /\ touched = {}
  /\ pixcalls = <<>>
  /\ loop = NoLoop

-----------------------------------------------------------------------------
(* OLEDSetBufferPtr *)

\* The size test of line 52.
SizeMatches(width, height, sizeOfBuffer) == sizeOfBuffer = width * (height \div 8)

\* Variant without the null test of line 58: a null pointer of the right size
\* is accepted.
SetBufferPtrResult_NoNullCheck(width, height, pBuffer, sizeOfBuffer) ==
  IF ~SizeMatches(width, height, sizeOfBuffer)
  THEN [ret |-> "false", errlog |-> 1, OLEDbuffer |-> OLEDbuffer]
  ELSE [ret |-> "true", errlog |-> 0, OLEDbuffer |-> pBuffer]

\* Outcome of the call: the value returned, the message printed and the
\* handle stored.
SetBufferPtrResult(width, height, pBuffer, sizeOfBuffer) ==
  IF ~SizeMatches(width, height, sizeOfBuffer)
  THEN [ret |-> "false", errlog |-> 1, OLEDbuffer |-> OLEDbuffer]
  ELSE IF pBuffer = NullPtr
       THEN [ret |-> "false", errlog |-> 2, OLEDbuffer |-> pBuffer]
       ELSE [ret |-> "true", errlog |-> 0, OLEDbuffer |-> pBuffer]

OLEDSetBufferPtr(width, height, pBuffer, sizeOfBuffer) ==
  /\ CanCall
  /\ LET r == SetBufferPtrResult(width, height, pBuffer, sizeOfBuffer) IN
       /\ ret' = r.ret
       /\ errlog' = r.errlog
       /\ OLEDbuffer' = r.OLEDbuffer
       /\ declSize' = IF r.ret = "true" THEN sizeOfBuffer ELSE declSize
  /\ bus' = <<>>
  /\ touched' = {}
  /\ pixcalls' = <<>>
  /\ Begin(Call("OLEDSetBufferPtr", width, height, sizeOfBuffer, 0, pBuffer, FALSE))
  /\ UNCHANGED <<heap, rotation, halted>>

\* Arguments tried: the matching buffer, an 8x8 buffer, a null pointer, and
\* declared sizes that do not fit the declared width and height.
SetBufferPtrArgs ==
  LET n == OLED_WIDTH * (OLED_HEIGHT \div 8) IN
  { <<OLED_WIDTH, OLED_HEIGHT, "exact", n>>,
    <<8, 8, "small", 8>>,
    <<OLED_WIDTH, OLED_HEIGHT, NullPtr, n>>,
    <<OLED_WIDTH, OLED_HEIGHT, "exact", 8>>,
    <<OLED_WIDTH, OLED_HEIGHT, NullPtr, 8>> }

-----------------------------------------------------------------------------
(* setRotation (SSD1306_graphics) *)

setRotation(r) ==
  /\ CanCall
  /\ rotation' = r % 4
  /\ ret' = "void"
  /\ errlog' = 0
  /\ bus' = <<>>
  /\ touched' = {}
  /\ pixcalls' = <<>>
  /\ Begin(Call("setRotation", r, 0, 0, 0, "", FALSE))
  /\ UNCHANGED <<OLEDbuffer, heap, declSize, halted>>

-----------------------------------------------------------------------------
(* drawPixel *)

Colors == {"WHITE", "BLACK", "INVERSE"}

\* Variant that tests every rotation against the unrotated bounds.
PixelInBounds_NoSwap(x, y) ==
  ~((x < 0) \/ (x >= bufferWidth) \/ (y < 0) \/ (y >= bufferHeight))

\* Lines 342-350: the test against the logical (rotated) bounds.
PixelInBounds(x, y) ==
  IF rotation = 0 \/ rotation = 2
  THEN ~((x < 0) \/ (x >= bufferWidth) \/ (y < 0) \/ (y >= bufferHeight))
  ELSE ~((x < 0) \/ (x >= bufferHeight) \/ (y < 0) \/ (y >= bufferWidth))

\* Variant with the mappings of rotations 1 and 3 exchanged.
Rotate_Swapped(x, y) ==
  CASE rotation = 1 -> <<y, HEIGHT - 1 - x>>
    [] rotation = 2 -> <<WIDTH - 1 - x, HEIGHT - 1 - y>>
    [] rotation = 3 -> <<WIDTH - 1 - y, x>>
    [] OTHER        -> <<x, y>>

\* Lines 352-367: logical to physical coordinates.
Rotate(x, y) ==
  CASE rotation = 1 -> <<WIDTH - 1 - y, x>>
    [] rotation = 2 -> <<WIDTH - 1 - x, HEIGHT - 1 - y>>
    [] rotation = 3 -> <<y, HEIGHT - 1 - x>>
    [] OTHER        -> <<x, y>>

\* Line 368: the byte index of a physical pixel.
ByteIndex(p) == U16(bufferWidth * CDiv(p[2], 8) + p[1])

\* Variant in which INVERSE sets the bit instead of toggling it.
ApplyColor_InverseAsOr(byte, mask, color) ==
  CASE color = "WHITE"   -> Or8(byte, mask)
    [] color = "BLACK"   -> AndNot8(byte, mask)
    [] color = "INVERSE" -> Or8(byte, mask)
    [] OTHER             -> byte

\* Variant in which INVERSE clears the bit instead of toggling it.
ApplyColor_InverseAsAndNot(byte, mask, color) ==
  CASE color = "WHITE"   -> Or8(byte, mask)
    [] color = "BLACK"   -> AndNot8(byte, mask)
    [] color = "INVERSE" -> AndNot8(byte, mask)
    [] OTHER             -> byte

\* Lines 369-374: the new value of the byte.
ApplyColor(byte, mask, color) ==
  CASE color = "WHITE"   -> Or8(byte, mask)
    [] color = "BLACK"   -> AndNot8(byte, mask)
    [] color = "INVERSE" -> Xor8(byte, mask)
    [] OTHER             -> byte

\* Whether index tc lies inside the array the handle points to.
Mapped(mem, tc) == OLEDbuffer # NullPtr /\ tc < Len(mem[OLEDbuffer])

\* A drawing in progress: the memory, the indices accessed, the drawPixel calls
\* made, whether an access fell outside the array behind the handle (ub), and
\* whether that access faulted and stopped the processor (stopped).
Drawing(mem) ==
  [mem |-> mem, touched |-> {}, pixels |-> <<>>, ub |-> FALSE, stopped |-> FALSE]

\* One drawPixel call on a drawing in progress.  An access outside the array
\* behind the handle is undefined: it either faults (fault) or lands in
\* memory that is not part of the array.
PixelStep(st, x, y, color, fault) ==
  IF st.stopped THEN st
  ELSE LET p  == Rotate(x, y)
           tc == ByteIndex(p)
           in == [st EXCEPT !.pixels = Append(@, <<x, y, color>>)]
       IN IF ~PixelInBounds(x, y) \/ color \notin Colors THEN in
          ELSE IF Mapped(st.mem, tc)
          THEN [in EXCEPT !.mem[OLEDbuffer][tc + 1] = ApplyColor(@, 2 ^ (p[2] % 8), color),
                          !.touched = @ \cup {tc}]
          ELSE [in EXCEPT !.touched = @ \cup {tc}, !.ub = TRUE, !.stopped = fault]

\* Effect of a finished drawing on the state.
Commit(st, fault) ==
  /\ (fault => st.ub)
  /\ heap' = st.mem
  /\ touched' = st.touched
  /\ pixcalls' = st.pixels
  /\ halted' = st.stopped

drawPixel(x, y, color) ==
  /\ CanCall
  /\ \E st \in { PixelStep(Drawing(heap), x, y, color, FALSE) } :
       \/ Commit(st, FALSE)
       \/ st.ub /\ \E sf \in { PixelStep(Drawing(heap), x, y, color, TRUE) } : Commit(sf, TRUE)
  /\ ret' = "void"
  /\ errlog' = 0
  /\ bus' = <<>>
  /\ Begin(Call("drawPixel", x, y, 0, 0, color, FALSE))
  /\ UNCHANGED <<OLEDbuffer, declSize, rotation>>

\* Coordinates tried: an interior pixel, the far corners of both orientations,
\* and the first coordinate outside each edge.
PixelCoords ==
  { <<0, 0>>, <<2, 5>>,
    <<OLED_WIDTH - 1, OLED_HEIGHT - 1>>, <<OLED_HEIGHT - 1, OLED_WIDTH - 1>>,
    <<OLED_WIDTH, 0>>, <<0, OLED_WIDTH>>, <<OLED_HEIGHT, 0>>, <<0, OLED_HEIGHT>>,
    <<-1, 0>>, <<0, -1>> }

\* Calls tried <<x, y, color>>: every colour at the origin, the interior pixel
\* and the far corners; INVERSE, which changes any bit it reaches, at the
\* coordinates next to the edges.
PixelArgs ==
  { <<p[1], p[2], c>> : p \in PixelCoords, c \in {"INVERSE"} }
  \cup { <<p[1], p[2], c>> :
           p \in { <<0, 0>>, <<2, 5>>, <<OLED_WIDTH - 1, OLED_HEIGHT - 1>>,
                    <<OLED_HEIGHT - 1, OLED_WIDTH - 1>> },
           c \in Colors }

-----------------------------------------------------------------------------
(* OLEDclearBuffer *)

\* Variant of OLEDclearBuffer that also sends a zero byte to the display.
OLEDclearBuffer_AndPush ==
  /\ CanCall
  /\ heap' = [n \in DOMAIN heap |->
               IF n = OLEDbuffer THEN [k \in DOMAIN heap[n] |-> 0] ELSE heap[n]]
  /\ touched' = IF OLEDbuffer = NullPtr THEN {} ELSE 0 .. Len(heap[OLEDbuffer]) - 1
  /\ pixcalls' = <<>>
  /\ halted' = FALSE
  /\ ret' = "void"
  /\ errlog' = 0
  /\ bus' = << [dc |-> "data", op |-> "byte", arg |-> 0] >>
  /\ call' = [op |-> "OLEDclearBuffer", a |-> 0, b |-> 0, c |-> 0, d |-> 0,
              s |-> "", f |-> FALSE]
  /\ pre' = [heap |-> heap, OLEDbuffer |-> OLEDbuffer, rotation |-> rotation]
  /\ ncalls' = ncalls + 1
  /\ UNCHANGED <<OLED_WIDTH, OLED_HEIGHT, loop, OLEDbuffer, declSize, rotation>>

\* memset(OLEDbuffer, 0, bufferWidth * (bufferHeight / 8)): bytes 0..n-1 are
\* written in order; a byte outside the array behind the handle is undefined.
RECURSIVE ClearFrom(_, _, _, _)
ClearFrom(st, k, n, fault) ==
  IF k >= n \/ st.stopped THEN st
  ELSE ClearFrom(
         IF Mapped(st.mem, k)
         THEN [st EXCEPT !.mem[OLEDbuffer][k + 1] = 0, !.touched = @ \cup {k}]
         ELSE [st EXCEPT !.touched = @ \cup {k}, !.ub = TRUE, !.stopped = fault],
         k + 1, n, fault)

OLEDclearBuffer ==
  /\ CanCall
  /\ \E n \in { bufferWidth * (bufferHeight \div 8) } :
       \E st \in { ClearFrom(Drawing(heap), 0, n, FALSE) } :
          \/ Commit(st, FALSE)
          \/ st.ub /\ \E sf \in { ClearFrom(Drawing(heap), 0, n, TRUE) } : Commit(sf, TRUE)
  /\ ret' = "void"
  /\ errlog' = 0
  /\ bus' = <<>>
  /\ Begin(Call("OLEDclearBuffer", 0, 0, 0, 0, "", FALSE))
  /\ UNCHANGED <<OLEDbuffer, declSize, rotation>>

-----------------------------------------------------------------------------
(* OLEDBitmap *)

\* Contents of the caller's bitmap array "bmp", one byte per 8 pixels of a row.
BitmapBytes == <<165, 60, 15, 129>>

\* Lines 206-231: the four argument checks, in order; 0 when all pass.
BitmapCheck(x, y, w, h, data) ==
  IF x > CurWidth \/ y > CurHeight THEN 1
  ELSE IF w > CurWidth \/ h > CurHeight THEN 2
  ELSE IF data = NullPtr THEN 3
  ELSE IF CMod(w, 8) # 0 THEN 4
  ELSE 0

\* The code returned for each check.
BitmapCode(n) ==
  CASE n = 1 -> "OLED_BitmapScreenBounds"
    [] n = 2 -> "OLED_BitmapLargerThanScreen"
    [] n = 3 -> "OLED_BitmapNullptr"
    [] n = 4 -> "OLED_BitmapHorizontalSize"
    [] OTHER -> "OLED_Success"

\* Variant of the pixel loops that ignores invert.
RECURSIVE BitmapLoop_NoInvert(_, _, _, _, _, _)
BitmapLoop_NoInvert(st, byte, i, j, b, fault) ==
  IF j >= b.h THEN st
  ELSE IF i >= b.w THEN BitmapLoop_NoInvert(st, byte, 0, j + 1, b, fault)
  ELSE LET byteWidth == CDiv(b.w + 7, 8)
           nb == IF i % 8 # 0 THEN U8(byte * 2)
                 ELSE BitmapBytes[j * byteWidth + (i \div 8) + 1]
       IN BitmapLoop_NoInvert(PixelStep(st, b.x + i, b.y + j,
                                        IF Bit(nb, 7) = 1 THEN "WHITE" ELSE "BLACK", fault),
                              nb, i + 1, j, b, fault)

\* Lines 246-257: the pixel loops.  b holds the call's arguments, byte the
\* cached bitmap byte, (i, j) the loop counters.
RECURSIVE BitmapLoop(_, _, _, _, _, _)
BitmapLoop(st, byte, i, j, b, fault) ==
  IF j >= b.h THEN st
  ELSE IF i >= b.w THEN BitmapLoop(st, byte, 0, j + 1, b, fault)
  ELSE LET byteWidth == CDiv(b.w + 7, 8)
           nb == IF i % 8 # 0 THEN U8(byte * 2)
                 ELSE BitmapBytes[j * byteWidth + (i \div 8) + 1]
           color   == IF b.invert THEN "BLACK" ELSE "WHITE"
           bgcolor == IF b.invert THEN "WHITE" ELSE "BLACK"
       IN BitmapLoop(PixelStep(st, b.x + i, b.y + j,
                               IF Bit(nb, 7) = 1 THEN color ELSE bgcolor, fault),
                     nb, i + 1, j, b, fault)

OLEDBitmap(x, y, w, h, data, invert) ==
  /\ CanCall
  /\ \E failed \in { BitmapCheck(x, y, w, h, data) } :
       LET b == [x |-> x, y |-> y, w |-> w, h |-> h, invert |-> invert]
       IN /\ ret' = BitmapCode(failed)
          /\ errlog' = failed
          /\ \E st \in { IF failed # 0 THEN Drawing(heap)
                          ELSE BitmapLoop(Drawing(heap), 0, 0, 0, b, FALSE) } :
                \/ Commit(st, FALSE)
                \/ st.ub /\ \E sf \in { BitmapLoop(Drawing(heap), 0, 0, 0, b, TRUE) } :
                               Commit(sf, TRUE)
  /\ bus' = <<>>
  /\ Begin(Call("OLEDBitmap", x, y, w, h, data, invert))
  /\ UNCHANGED <<OLEDbuffer, declSize, rotation>>

\* Arguments tried <<x, y, w, h, data, invert>>: blits that fit (one two bytes
\* wide, which fits the rotated screens), origins on and
\* beyond each edge, oversized and misaligned bitmaps, a null bitmap, and
\* calls that break several rules at once.
BitmapArgs ==
  LET W == OLED_WIDTH
      H == OLED_HEIGHT
  IN { <<0, 0, 8, 2, "bmp", FALSE>>,
       <<0, 0, 8, 2, "bmp", TRUE>>,
       <<1, 1, 8, 1, "bmp", FALSE>>,
       <<0, 0, 16, 2, "bmp", TRUE>>,
       <<W, 0, 8, 1, "bmp", FALSE>>,
       <<0, H, 8, 1, "bmp", FALSE>>,
       <<H, 0, 8, 1, "bmp", FALSE>>,
       <<-1, 0, 8, 1, "bmp", FALSE>>,
       <<H + 1, 0, 4, 1, NullPtr, FALSE>>,
       <<0, H + 1, 8, 1, "bmp", TRUE>>,
       <<0, 0, H + 1, 1, NullPtr, FALSE>>,
       <<0, 0, 8, H + 1, "bmp", FALSE>>,
       <<0, 0, 4, 1, NullPtr, FALSE>>,
       <<0, 0, 4, 1, "bmp", FALSE>>,
       <<W, 0, 4, 1, "bmp", FALSE>>,
       <<H, 0, 8, 1, NullPtr, FALSE>> }

-----------------------------------------------------------------------------
(* The I2C bus: I2C_Write_Byte(value, cmd). *)

\* A command write of an opcode of the controller's command set, or'ed with arg.
Cmd(op, arg) == [dc |-> "cmd", op |-> op, arg |-> arg]
\* A command write of a plain byte.
Lit(v) == [dc |-> "cmd", op |-> "byte", arg |-> v]
\* A data write.
Data(v) == [dc |-> "data", op |-> "byte", arg |-> v]

RECURSIVE Repeat(_, _)
Repeat(wr, n) == IF n <= 0 THEN <<>> ELSE <<wr>> \o Repeat(wr, n - 1)

\* A call that only writes to the bus.
BusCall(c, writes) ==
  /\ CanCall
  /\ bus' = writes
  /\ ret' = "void"
  /\ errlog' = 0
  /\ touched' = {}
  /\ pixcalls' = <<>>
  /\ Begin(c)
  /\ UNCHANGED <<OLEDbuffer, heap, declSize, rotation, halted>>

-----------------------------------------------------------------------------
(* OLEDinit (called by OLEDbegin) *)

\* Variant in which the case for height 16 repeats the contrast of height 32.
InitComPins_CopiedContrast ==
  CASE OLED_HEIGHT = 64 -> << Cmd("SSD1306_SET_COM_PINS", 0), Lit(18),
                              Cmd("SSD1306_SET_CONTRAST_CONTROL", 0), Lit(207) >>
    [] OLED_HEIGHT = 32 -> << Cmd("SSD1306_SET_COM_PINS", 0), Lit(2),
                              Cmd("SSD1306_SET_CONTRAST_CONTROL", 0), Lit(143) >>
    [] OLED_HEIGHT = 16 -> << Cmd("SSD1306_SET_COM_PINS", 0), Lit(2),
                              Cmd("SSD1306_SET_CONTRAST_CONTROL", 0), Lit(143) >>
    [] OTHER            -> << >>

\* Lines 94-114: the height switch.
InitComPins ==
  CASE OLED_HEIGHT = 64 -> << Cmd("SSD1306_SET_COM_PINS", 0), Lit(18),
                              Cmd("SSD1306_SET_CONTRAST_CONTROL", 0), Lit(207) >>
    [] OLED_HEIGHT = 32 -> << Cmd("SSD1306_SET_COM_PINS", 0), Lit(2),
                              Cmd("SSD1306_SET_CONTRAST_CONTROL", 0), Lit(143) >>
    [] OLED_HEIGHT = 16 -> << Cmd("SSD1306_SET_COM_PINS", 0), Lit(2),
                              Cmd("SSD1306_SET_CONTRAST_CONTROL", 0), Lit(175) >>
    [] OTHER            -> << >>

InitWrites ==
  << Cmd("SSD1306_DISPLAY_OFF", 0),
     Cmd("SSD1306_SET_DISPLAY_CLOCK_DIV_RATIO", 0), Lit(128),
     Cmd("SSD1306_SET_MULTIPLEX_RATIO", 0), Lit(U8(OLED_HEIGHT - 1)),
     Cmd("SSD1306_SET_DISPLAY_OFFSET", 0), Lit(0),
     Cmd("SSD1306_SET_START_LINE", 0),
     Cmd("SSD1306_CHARGE_PUMP", 0), Lit(20),
     Cmd("SSD1306_MEMORY_ADDR_MODE", 0), Lit(0),
     Cmd("SSD1306_SET_SEGMENT_REMAP", 1),
     Cmd("SSD1306_COM_SCAN_DIR_DEC", 0) >>
  \o InitComPins
  \o << Cmd("SSD1306_SET_PRECHARGE_PERIOD", 0), Lit(241),
        Cmd("SSD1306_SET_VCOM_DESELECT", 0), Lit(64),
        Cmd("SSD1306_DISPLAY_ALL_ON_RESUME", 0),
        Cmd("SSD1306_NORMAL_DISPLAY", 0),
        Cmd("SSD1306_DEACTIVATE_SCROLL", 0),
        Cmd("SSD1306_DISPLAY_ON", 0) >>

OLEDinit == BusCall(Call("OLEDinit", 0, 0, 0, 0, "", FALSE), InitWrites)

-----------------------------------------------------------------------------
(* OLEDFillScreen *)

\* Lines 161-170: the page loop, from page row on.
RECURSIVE FillRows(_, _)
FillRows(row, dataPattern) ==
  IF ~(row < PAGE_NUM) THEN <<>>
  ELSE << Lit(Or8(176, row)),
          Cmd("SSD1306_SET_LOWER_COLUMN", 0),
          Cmd("SSD1306_SET_HIGHER_COLUMN", 0) >>
       \o Repeat(Data(dataPattern), OLED_WIDTH)
       \o FillRows(U8(row + 1), dataPattern)

\* Variant whose page loop starts at page 1.
OLEDFillScreen_FromRowOne(dataPattern, delay) ==
  BusCall(Call("OLEDFillScreen", dataPattern, delay, 0, 0, "", FALSE),
          FillRows(1, dataPattern))

OLEDFillScreen(dataPattern, delay) ==
  BusCall(Call("OLEDFillScreen", dataPattern, delay, 0, 0, "", FALSE),
          FillRows(0, dataPattern))

\* Lines 179-190.
OLEDFillPage(page_num, dataPattern, mydelay) ==
  BusCall(Call("OLEDFillPage", page_num, dataPattern, mydelay, 0, "", FALSE),
          << Lit(Or8(176, page_num)),
             Cmd("SSD1306_SET_LOWER_COLUMN", 0),
             Cmd("SSD1306_SET_HIGHER_COLUMN", 0) >>
          \o Repeat(Data(dataPattern), U8(OLED_WIDTH)))

-----------------------------------------------------------------------------
(* Power, contrast, invert and scroll controls *)

\* Line 132.
EnableWrites(bits) ==
  IF bits # 0 THEN << Cmd("SSD1306_DISPLAY_ON", 0) >> ELSE << Cmd("SSD1306_DISPLAY_OFF", 0) >>

OLEDEnable(bits) == BusCall(Call("OLEDEnable", bits, 0, 0, 0, "", FALSE), EnableWrites(bits))

\* Lines 69-72: OLEDEnable(0).
OLEDPowerDown == BusCall(Call("OLEDPowerDown", 0, 0, 0, 0, "", FALSE), EnableWrites(0))

\* Lines 139-143.
OLEDContrast(contrast) ==
  BusCall(Call("OLEDContrast", contrast, 0, 0, 0, "", FALSE),
          << Cmd("SSD1306_SET_CONTRAST_CONTROL", 0), Lit(contrast) >>)

\* Lines 149-152.
OLEDInvert(value) ==
  BusCall(Call("OLEDInvert", 0, 0, 0, 0, "", value),
          IF value THEN << Cmd("SSD1306_INVERT_DISPLAY", 0) >>
          ELSE << Cmd("SSD1306_NORMAL_DISPLAY", 0) >>)

\* Lines 384-391 and 401-408: a horizontal scroll in direction opcode.
HorizontalScrollWrites(opcode, start, stop) ==
  << Cmd(opcode, 0), Lit(0), Lit(start), Lit(0), Lit(stop), Lit(0), Lit(255),
     Cmd("SSD1306_ACTIVATE_SCROLL", 0) >>

\* Lines 418-427 and 437-446: a diagonal scroll in direction opcode.
DiagonalScrollWrites(opcode, start, stop) ==
  << Cmd("SSD1306_SET_VERTICAL_SCROLL_AREA", 0), Lit(0), Lit(U8(OLED_HEIGHT)),
     Cmd(opcode, 0), Lit(0), Lit(start), Lit(0), Lit(stop), Lit(1),
     Cmd("SSD1306_ACTIVATE_SCROLL", 0) >>

OLEDStartScrollRight(start, stop) ==
  BusCall(Call("OLEDStartScrollRight", start, stop, 0, 0, "", FALSE),
          HorizontalScrollWrites("SSD1306_RIGHT_HORIZONTAL_SCROLL", start, stop))

OLEDStartScrollLeft(start, stop) ==
  BusCall(Call("OLEDStartScrollLeft", start, stop, 0, 0, "", FALSE),
          HorizontalScrollWrites("SSD1306_LEFT_HORIZONTAL_SCROLL", start, stop))

OLEDStartScrollDiagRight(start, stop) ==
  BusCall(Call("OLEDStartScrollDiagRight", start, stop, 0, 0, "", FALSE),
          DiagonalScrollWrites("SSD1306_VERTICAL_AND_RIGHT_HORIZONTAL_SCROLL", start, stop))

OLEDStartScrollDiagLeft(start, stop) ==
  BusCall(Call("OLEDStartScrollDiagLeft", start, stop, 0, 0, "", FALSE),
          DiagonalScrollWrites("SSD1306_VERTICAL_AND_LEFT_HORIZONTAL_SCROLL", start, stop))

\* Lines 452-455.
OLEDStopScroll ==
  BusCall(Call("OLEDStopScroll", 0, 0, 0, 0, "", FALSE),
          << Cmd("SSD1306_DEACTIVATE_SCROLL", 0) >>)

-----------------------------------------------------------------------------
(* OLEDupdate and OLEDBufferScreen *)

\* Variant whose column window ends at width instead of width - 1.
WindowWrites_ColumnEndWidth ==
  << Cmd("SSD1306_SET_COLUMN_ADDR", 0), Lit(0), Lit(U8(OLED_WIDTH)),
     Cmd("SSD1306_SET_PAGE_ADDR", 0), Lit(0) >>
  \o (CASE OLED_HEIGHT = 64 -> << Lit(7) >>
        [] OLED_HEIGHT = 32 -> << Lit(3) >>
        [] OLED_HEIGHT = 16 -> << Lit(1) >>
        [] OTHER            -> << >>)

\* Lines 304-316: the address window commands.
WindowWrites ==
  << Cmd("SSD1306_SET_COLUMN_ADDR", 0), Lit(0), Lit(U8(OLED_WIDTH - 1)),
     Cmd("SSD1306_SET_PAGE_ADDR", 0), Lit(0) >>
  \o (CASE OLED_HEIGHT = 64 -> << Lit(7) >>
        [] OLED_HEIGHT = 32 -> << Lit(3) >>
        [] OLED_HEIGHT = 16 -> << Lit(1) >>
        [] OTHER            -> << >>)

\* A transfer in progress: the writes so far, the source offsets read, and the
\* undefined-access flags of a drawing.
Transfer(writes) == [bus |-> writes, touched |-> {}, ub |-> FALSE, stopped |-> FALSE]

\* Lines 318-328: the loops over page rows ty and columns tx.  a holds the
\* arguments; a read outside the source array is undefined: it faults or
\* yields the byte junk.
RECURSIVE ScreenLoop(_, _, _, _, _, _)
ScreenLoop(acc, ty, tx, a, junk, fault) ==
  IF acc.stopped \/ ~(ty < a.h) THEN acc
  ELSE IF (a.y + ty < 0 \/ a.y + ty >= OLED_HEIGHT) \/ ~(tx < a.w)
       THEN ScreenLoop(acc, U8(ty + 8), 0, a, junk, fault)
  ELSE IF a.x + tx < 0 \/ a.x + tx >= OLED_WIDTH
       THEN ScreenLoop(acc, ty, U8(tx + 1), a, junk, fault)
  ELSE LET offset == U16(a.w * (ty \div 8) + tx)
           ok == a.data # NullPtr /\ offset < Len(heap[a.data])
       IN ScreenLoop(
            IF ok
            THEN [acc EXCEPT !.bus = Append(@, Data(heap[a.data][offset + 1])),
                             !.touched = @ \cup {offset}]
            ELSE IF fault
            THEN [acc EXCEPT !.touched = @ \cup {offset}, !.ub = TRUE, !.stopped = TRUE]
            ELSE [acc EXCEPT !.bus = Append(@, Data(junk)),
                             !.touched = @ \cup {offset}, !.ub = TRUE],
            ty, U8(tx + 1), a, junk, fault)

\* Variant whose row loop stops one page row early.
BufferScreenResult_ShortHeight(x, y, w, h, data, junk, fault) ==
  ScreenLoop(Transfer(WindowWrites), 0, 0,
             [x |-> x, y |-> y, w |-> w, h |-> h - 8, data |-> data], junk, fault)

BufferScreenResult(x, y, w, h, data, junk, fault) ==
  ScreenLoop(Transfer(WindowWrites), 0, 0,
             [x |-> x, y |-> y, w |-> w, h |-> h, data |-> data], junk, fault)

\* The bytes an undefined read may yield.
JunkBytes == {0, 255}

\* The outcomes of an undefined read <<junk, fault>>: a byte, or a fault.
ReadOutcomes == { <<j, FALSE>> : j \in JunkBytes } \cup { <<0, TRUE>> }

\* Every result of one transfer: the reads are defined and there is one, or
\* some read is undefined and there is one per outcome of it.
BufferScreenResults(x, y, w, h, data) ==
  UNION { IF r.ub
          THEN { r } \cup { BufferScreenResult(x, y, w, h, data, o[1], o[2]) :
                               o \in ReadOutcomes \ { <<0, FALSE>> } }
          ELSE { r } : r \in { BufferScreenResult(x, y, w, h, data, 0, FALSE) } }

\* OLEDBufferScreen called by the user, run to completion.
OLEDBufferScreen(x, y, w, h, data) ==
  /\ CanCall
  /\ \E acc \in BufferScreenResults(x, y, w, h, data) :
          /\ bus' = acc.bus
          /\ touched' = acc.touched
          /\ halted' = acc.stopped
  /\ ret' = "void"
  /\ errlog' = 0
  /\ pixcalls' = <<>>
  /\ Begin(Call("OLEDBufferScreen", x, y, w, h, data, FALSE))
  /\ UNCHANGED <<OLEDbuffer, heap, declSize, rotation>>

\* Rectangles tried <<x, y, w, h, data>>: the whole panel, an inner rectangle,
\* rectangles that overhang each edge, empty ones, and a null source.  h stays
\* below 249, where the row loop is known to end; larger h is run statement by
\* statement (BufferScreenEnter).
ScreenArgs ==
  LET W == OLED_WIDTH
      H == OLED_HEIGHT
  IN { <<0, 0, W, H, "exact">>,
       <<1, 8, 2, 16, "exact">>,
       <<-1, -8, 3, 24, "exact">>,
       <<W - 1, H - 8, 3, 16, "exact">>,
       <<0, 0, 2, H + 8, "small">>,
       <<0, 0, 0, 8, "exact">>,
       <<0, 0, 2, 0, "exact">>,
       <<0, 0, W, H, NullPtr>> }

OLEDupdate ==
  /\ CanCall
  /\ \E acc \in BufferScreenResults(0, 0, U8(bufferWidth), U8(bufferHeight), OLEDbuffer) :
          /\ bus' = acc.bus
          /\ touched' = acc.touched
          /\ halted' = acc.stopped
  /\ ret' = "void"
  /\ errlog' = 0
  /\ pixcalls' = <<>>
  /\ Begin(Call("OLEDupdate", 0, 0, 0, 0, "", FALSE))
  /\ UNCHANGED <<OLEDbuffer, heap, declSize, rotation>>

-----------------------------------------------------------------------------
(* OLEDBufferScreen, statement by statement. *)

\* The array passed as data.
LoopSource == "exact"

\* Lines 299-318: entry, the address window, ty = 0.
BufferScreenEnter(x, y, w, h) ==
  /\ CanCall
  /\ loop.pc = "idle"
  /\ loop' = [NoLoop EXCEPT !.pc = "outer", !.x = x, !.y = y, !.w = w, !.h = h]
  /\ bus' = WindowWrites
  /\ call' = Call("OLEDBufferScreen", x, y, w, h, LoopSource, FALSE)
  /\ pre' = Snapshot
  /\ ncalls' = ncalls + 1
  /\ ret' = "void"
  /\ errlog' = 0
  /\ touched' = {}
  /\ pixcalls' = <<>>
  /\ UNCHANGED <<OLED_WIDTH, OLED_HEIGHT, OLEDbuffer, heap, declSize, rotation, halted>>

\* Lines 318-321: the test of the row loop, the row skip, tx = 0.
BufferScreenRow ==
  /\ loop.pc = "outer"
  /\ loop' = IF ~(loop.ty < loop.h) THEN [loop EXCEPT !.pc = "done"]
             ELSE IF loop.y + loop.ty < 0 \/ loop.y + loop.ty >= OLED_HEIGHT
             THEN [loop EXCEPT !.ty = U8(@ + 8)]
             ELSE [loop EXCEPT !.pc = "inner", !.tx = 0]
  /\ UNCHANGED <<OLED_WIDTH, OLED_HEIGHT, OLEDbuffer, heap, declSize, rotation, halted,
                 ncalls, call, ret, errlog, bus, touched, pixcalls, pre>>

\* Lines 321-327 and the step ty = ty + 8 of line 318: the test of the column
\* loop, the column skip, one data write.  A read outside the source array is
\* undefined: it faults or yields the byte junk.
BufferScreenColumn ==
  /\ loop.pc = "inner"
  /\ \E junk \in JunkBytes, fault \in BOOLEAN :
       LET offset == U16(loop.w * (loop.ty \div 8) + loop.tx)
           ok     == offset < Len(heap[LoopSource])
           byte   == IF ok THEN heap[LoopSource][offset + 1] ELSE junk
           pair   == <<loop.ty, loop.tx>>
           skip   == loop.x + loop.tx < 0 \/ loop.x + loop.tx >= OLED_WIDTH
           write  == loop.tx < loop.w /\ ~skip
       IN /\ (fault => write /\ ~ok)
          /\ (junk # 0 => write /\ ~ok /\ ~fault)
          /\ loop' = IF ~(loop.tx < loop.w)
                     THEN [loop EXCEPT !.pc = "outer", !.ty = U8(@ + 8)]
                     ELSE IF skip THEN [loop EXCEPT !.tx = U8(@ + 1)]
                     ELSE IF fault THEN [loop EXCEPT !.pc = "fault"]
                     ELSE [loop EXCEPT !.tx = U8(@ + 1),
                                       !.sent = @ \cup {pair},
                                       !.resent = @ \/ pair \in loop.sent,
                                       !.ordered = @ /\ (loop.last = <<>> \/ loop.last[3] < offset),
                                       !.last = <<loop.ty, loop.tx, offset, byte>>]
          /\ touched' = IF write THEN touched \cup {offset} ELSE touched
          /\ halted' = (halted \/ fault)
  /\ UNCHANGED <<OLED_WIDTH, OLED_HEIGHT, OLEDbuffer, heap, declSize, rotation,
                 ncalls, call, ret, errlog, bus, pixcalls, pre>>

\* Rectangles <<x, y, w, h>> run statement by statement: ordinary ones, the
\* largest h below 249, and h in 249 .. 255.
LoopArgs ==
  { <<0, 0, 2, 16>>, <<1, 8, 2, 24>>, <<0, 0, 1, 248>>,
    <<0, 0, 1, 249>>, <<1, 8, 2, 255>>, <<0, 0, 0, 250>> }

LoopNext ==
  \/ \E a \in LoopArgs : BufferScreenEnter(a[1], a[2], a[3], a[4])
  \/ BufferScreenRow
  \/ BufferScreenColumn

\* The processor keeps executing the call it is in.
LoopSpec == Init /\ [][LoopNext]_vars /\ WF_vars(LoopNext)

-----------------------------------------------------------------------------
Next ==
  \/ \E a \in SetBufferPtrArgs : OLEDSetBufferPtr(a[1], a[2], a[3], a[4])
  \/ \E r \in 0..3 : setRotation(r)
  \/ \E a \in PixelArgs : drawPixel(a[1], a[2], a[3])
  \/ \E a \in BitmapArgs : OLEDBitmap(a[1], a[2], a[3], a[4], a[5], a[6])
  \/ OLEDclearBuffer
  \/ OLEDupdate
  \/ \E a \in ScreenArgs : OLEDBufferScreen(a[1], a[2], a[3], a[4], a[5])
  \/ OLEDinit
  \/ \E a \in { <<0, 0>>, <<255, 5>> } : OLEDFillScreen(a[1], a[2])
  \/ OLEDFillPage(1, 170, 0)
  \/ \E bits \in {0, 1} : OLEDEnable(bits)
  \/ OLEDPowerDown
  \/ OLEDContrast(128)
  \/ \E value \in BOOLEAN : OLEDInvert(value)
  \/ OLEDStartScrollRight(0, 7)
  \/ OLEDStartScrollLeft(0, 7)
  \/ OLEDStartScrollDiagRight(0, 7)
  \/ OLEDStartScrollDiagLeft(0, 7)
  \/ OLEDStopScroll

Spec == Init /\ [][Next]_vars

-----------------------------------------------------------------------------
(* Vocabulary of the properties, in the terms of the specification. *)

\* The most recent call had a framebuffer of the driver's own geometry behind
\* the handle: width * (height / 8) bytes, as the buffer contract requires.
PreReady ==
  /\ pre.OLEDbuffer # NullPtr
  /\ Len(pre.heap[pre.OLEDbuffer]) = OLED_WIDTH * (OLED_HEIGHT \div 8)

\* Logical (rotated) screen size: width and height swap for rotations 1 and 3.
LogicalWidth  == IF rotation = 1 \/ rotation = 3 THEN OLED_HEIGHT ELSE OLED_WIDTH
LogicalHeight == IF rotation = 1 \/ rotation = 3 THEN OLED_WIDTH ELSE OLED_HEIGHT

InLogicalBounds(x, y) == 0 <= x /\ x < LogicalWidth /\ 0 <= y /\ y < LogicalHeight

\* The physical pixel (x', y') of logical pixel (x, y).
PhysX(x, y) ==
  CASE rotation = 0 -> x
    [] rotation = 1 -> OLED_WIDTH - 1 - y
    [] rotation = 2 -> OLED_WIDTH - 1 - x
    [] rotation = 3 -> y

PhysY(x, y) ==
  CASE rotation = 0 -> y
    [] rotation = 1 -> x
    [] rotation = 2 -> OLED_HEIGHT - 1 - y
    [] rotation = 3 -> OLED_HEIGHT - 1 - x

TargetByte(x, y) == OLED_WIDTH * (PhysY(x, y) \div 8) + PhysX(x, y)
TargetBit(x, y)  == PhysY(x, y) % 8

\* The framebuffer after and before the most recent call.
BufNow == heap[pre.OLEDbuffer]
BufPre == pre.heap[pre.OLEDbuffer]

\* Every caller array other than the framebuffer is as it was.
OthersUnchanged ==
  \A n \in BufferNames : n # pre.OLEDbuffer => heap[n] = pre.heap[n]

\* The <<byte, bit>> positions at which the framebuffer changed.
ChangedBits ==
  { kb \in (0 .. Len(BufPre) - 1) \X (0 .. 7) :
      Bit(BufNow[kb[1] + 1], kb[2]) # Bit(BufPre[kb[1] + 1], kb[2]) }

IsData(wr) == wr.dc = "data"
IsCmd(wr)  == wr.dc = "cmd"

-----------------------------------------------------------------------------
(* C1: OLEDSetBufferPtr return values. *)

CallSizeOk(c)  == c.c = c.a * (c.b \div 8)
CallPtrOk(c)   == c.s # NullPtr

\* C1 (as amended): OLEDSetBufferPtr(width, height, buffer, declaredSize)
\* returns true exactly when declaredSize = width * (height / 8) and buffer
\* is not null; a size mismatch and a null buffer both return false, the same
\* value, and differ only in the message printed (1 for the size, 2 for the
\* pointer).
C1_SetBufferPtrReturn ==
  call.op = "OLEDSetBufferPtr" =>
    /\ ret \in {"true", "false"}
    /\ (ret = "true" <=> (CallSizeOk(call) /\ CallPtrOk(call)))
    /\ errlog = (IF ~CallSizeOk(call) THEN 1 ELSE IF ~CallPtrOk(call) THEN 2 ELSE 0)
    /\ (ret = "true" => OLEDbuffer = call.s /\ declSize = call.c)

\* A null buffer of the right declared size has been refused.
C1_Witness ==
  /\ call.op = "OLEDSetBufferPtr"
  /\ CallSizeOk(call) /\ ~CallPtrOk(call)
  /\ ret = "false"

\* C1 (original): success exactly when size and pointer are right, and the
\* two failures are told apart by the value returned: a call failing on the
\* size and a following call failing on the null pointer return different
\* values.
C1_DistinctFailureCodes ==
  [][ call'.op = "OLEDSetBufferPtr" =>
        /\ (ret' = "true" <=> (CallSizeOk(call') /\ CallPtrOk(call')))
        /\ ( ( /\ call.op = "OLEDSetBufferPtr"
               /\ ~CallSizeOk(call)
               /\ CallSizeOk(call') /\ ~CallPtrOk(call') )
             => ret' # ret ) ]_vars

-----------------------------------------------------------------------------
(* C2: memory safety of the framebuffer. *)

BufferOps == {"drawPixel", "OLEDBitmap", "OLEDclearBuffer", "OLEDupdate"}

\* C2: once OLEDSetBufferPtr has accepted a buffer of declaredSize bytes,
\* drawPixel, OLEDBitmap, OLEDclearBuffer and OLEDupdate read and write only
\* indices 0 .. declaredSize - 1 of it.
C2_AccessWithinDeclaredSize ==
  (call.op \in BufferOps /\ declSize > 0 /\ pre.OLEDbuffer # NullPtr) =>
     \A k \in touched : 0 <= k /\ k < declSize

-----------------------------------------------------------------------------
(* C3: the pixel mapping. *)

\* The value colour gives a bit whose value was old.
NewBit(color, old) ==
  CASE color = "WHITE"   -> 1
    [] color = "BLACK"   -> 0
    [] color = "INVERSE" -> 1 - old

\* C3: on a framebuffer of the driver's geometry, drawPixel(x, y, color) with
\* (x, y) inside the logical bounds maps (x, y) by the rotation (0: identity,
\* 1: (W-1-y, x), 2: (W-1-x, H-1-y), 3: (y, H-1-x)) and gives bit y' & 7 of
\* byte width * (y' / 8) + x' the value 1 for WHITE, 0 for BLACK and the
\* opposite of its old value for INVERSE; every other bit of the buffer, and
\* every other array, keeps its value.
C3_SetPixelWritesMappedBit ==
  (call.op = "drawPixel" /\ PreReady /\ InLogicalBounds(call.a, call.b)) =>
     LET idx == TargetByte(call.a, call.b)
         n   == TargetBit(call.a, call.b)
     IN /\ 0 <= idx /\ idx < Len(BufPre)
        /\ Len(BufNow) = Len(BufPre)
        /\ \A k \in 0 .. Len(BufPre) - 1 :
             /\ BufNow[k + 1] \in 0 .. 255
             /\ \A m \in 0 .. 7 :
                  Bit(BufNow[k + 1], m) =
                    IF k = idx /\ m = n
                    THEN NewBit(call.s, Bit(BufPre[k + 1], m))
                    ELSE Bit(BufPre[k + 1], m)
        /\ OthersUnchanged
        /\ touched = {idx}
        /\ ~halted

\* An INVERSE pixel has been drawn under rotation 3 and changed the buffer.
C3_Witness ==
  /\ call.op = "drawPixel" /\ PreReady /\ InLogicalBounds(call.a, call.b)
  /\ rotation = 3 /\ call.s = "INVERSE"
  /\ call.a # call.b
  /\ heap # pre.heap

-----------------------------------------------------------------------------
(* C4: pixels outside the logical bounds. *)

\* C4: drawPixel(x, y, color) with (x, y) outside the logical bounds (x < 0,
\* y < 0, x >= logical width or y >= logical height) changes no memory,
\* accesses none, prints no error and returns normally.
C4_OutOfBoundsPixelIgnored ==
  (call.op = "drawPixel" /\ ~InLogicalBounds(call.a, call.b)) =>
     /\ heap = pre.heap
     /\ touched = {}
     /\ errlog = 0
     /\ ret = "void"
     /\ ~halted

\* Under rotation 1 a pixel with y = width, which rotation 0 would accept,
\* has been dropped.
C4_Witness ==
  /\ call.op = "drawPixel" /\ PreReady
  /\ rotation = 1
  /\ call.a = 0 /\ call.b = OLED_WIDTH
  /\ ~InLogicalBounds(call.a, call.b)

-----------------------------------------------------------------------------
(* C5, C6: the argument checks of OLEDBitmap. *)

\* The origin lies inside the (logical) screen.
OriginInside(c) == InLogicalBounds(c.a, c.b)

\* C5: OLEDBitmap(x, y, w, h, data, invert) with an origin that is not inside
\* the screen (not 0 <= x < width and 0 <= y < height) returns
\* OLED_BitmapScreenBounds and leaves the framebuffer untouched.
C5_OriginOutsideRejected ==
  (call.op = "OLEDBitmap" /\ ~OriginInside(call)) =>
     /\ ret = "OLED_BitmapScreenBounds"
     /\ heap = pre.heap
     /\ touched = {}

\* The code the four checks of the specification give a call: (a) origin inside
\* the screen, (b) w and h not larger than the screen, (c) data not null,
\* (d) w divisible by 8.
FirstFailingCheck(c) ==
  IF ~OriginInside(c) THEN "OLED_BitmapScreenBounds"
  ELSE IF c.c > LogicalWidth \/ c.d > LogicalHeight THEN "OLED_BitmapLargerThanScreen"
  ELSE IF c.s = NullPtr THEN "OLED_BitmapNullptr"
  ELSE IF c.c % 8 # 0 THEN "OLED_BitmapHorizontalSize"
  ELSE "OLED_Success"

\* C6: OLEDBitmap returns the code of the first failing check in the order
\* (a), (b), (c), (d), and a failing call writes no pixel.
C6_FirstFailingCheckReturned ==
  call.op = "OLEDBitmap" =>
     /\ ret = FirstFailingCheck(call)
     /\ (ret # "OLED_Success" => heap = pre.heap /\ touched = {})

-----------------------------------------------------------------------------
(* C7: OLEDupdate. *)

DataWrites == SelectSeq(bus, IsData)

\* C7: on a framebuffer of the driver's geometry OLEDupdate emits, after its
\* commands, exactly width * (height / 8) data writes, the k-th carrying
\* buffer[k]; it reads every byte of the buffer once and changes none; so an
\* all-zero buffer is sent as zero bytes only.
C7_UpdatePushesWholeBuffer ==
  (call.op = "OLEDupdate" /\ PreReady) =>
     LET n == OLED_WIDTH * (OLED_HEIGHT \div 8) IN
     /\ Len(DataWrites) = n
     /\ \A k \in 1 .. n : DataWrites[k] = Data(BufNow[k])
     /\ \A i \in 1 .. Len(bus) : \A j \in 1 .. Len(bus) :
          (i < j /\ IsData(bus[i])) => IsData(bus[j])
     /\ Len(bus) > n /\ IsCmd(bus[1])
     /\ touched = 0 .. n - 1
     /\ heap = pre.heap
     /\ ((\A k \in 1 .. n : BufNow[k] = 0) => \A k \in 1 .. n : DataWrites[k].arg = 0)
     /\ ~halted

\* A cleared framebuffer of a 64-pixel-high panel has been pushed.
C7_Witness ==
  /\ call.op = "OLEDupdate" /\ PreReady
  /\ OLED_HEIGHT = 64
  /\ \A k \in 1 .. Len(BufNow) : BufNow[k] = 0
  /\ Len(DataWrites) = Len(BufNow)

-----------------------------------------------------------------------------
(* C8: OLEDinit. *)

\* The COM pins and contrast values of each supported height.
ComPinsValue  == CASE OLED_HEIGHT = 64 -> 18  [] OLED_HEIGHT = 32 -> 2   [] OLED_HEIGHT = 16 -> 2
ContrastValue == CASE OLED_HEIGHT = 64 -> 207 [] OLED_HEIGHT = 32 -> 143 [] OLED_HEIGHT = 16 -> 175

InitHead ==
  << Cmd("SSD1306_DISPLAY_OFF", 0),
     Cmd("SSD1306_SET_DISPLAY_CLOCK_DIV_RATIO", 0), Lit(128),
     Cmd("SSD1306_SET_MULTIPLEX_RATIO", 0), Lit(OLED_HEIGHT - 1),
     Cmd("SSD1306_SET_DISPLAY_OFFSET", 0), Lit(0),
     Cmd("SSD1306_SET_START_LINE", 0),
     Cmd("SSD1306_CHARGE_PUMP", 0), Lit(20),
     Cmd("SSD1306_MEMORY_ADDR_MODE", 0), Lit(0),
     Cmd("SSD1306_SET_SEGMENT_REMAP", 1),
     Cmd("SSD1306_COM_SCAN_DIR_DEC", 0) >>

InitTail ==
  << Cmd("SSD1306_SET_PRECHARGE_PERIOD", 0), Lit(241),
     Cmd("SSD1306_SET_VCOM_DESELECT", 0), Lit(64),
     Cmd("SSD1306_DISPLAY_ALL_ON_RESUME", 0),
     Cmd("SSD1306_NORMAL_DISPLAY", 0),
     Cmd("SSD1306_DEACTIVATE_SCROLL", 0),
     Cmd("SSD1306_DISPLAY_ON", 0) >>

\* C8: OLEDinit emits command writes only: the fixed head from display-off to
\* COM-scan-decrement, then COM-pins and contrast with (0x12, 0xCF) for height
\* 64, (0x02, 0x8F) for 32, (0x02, 0xAF) for 16 and nothing for any other
\* height, then the fixed tail ending in display-on.
C8_InitSequence ==
  call.op = "OLEDinit" =>
     /\ \A i \in 1 .. Len(bus) : IsCmd(bus[i])
     /\ bus[1] = Cmd("SSD1306_DISPLAY_OFF", 0)
     /\ bus[Len(bus)] = Cmd("SSD1306_DISPLAY_ON", 0)
     /\ SubSeq(bus, 1, 14) = InitHead
     /\ SubSeq(bus, Len(bus) - 7, Len(bus)) = InitTail
     /\ IF OLED_HEIGHT \in {16, 32, 64}
        THEN /\ Len(bus) = 26
             /\ SubSeq(bus, 15, 18) =
                  << Cmd("SSD1306_SET_COM_PINS", 0), Lit(ComPinsValue),
                     Cmd("SSD1306_SET_CONTRAST_CONTROL", 0), Lit(ContrastValue) >>
        ELSE Len(bus) = 22
     /\ heap = pre.heap

\* A 16-pixel-high panel has been initialised.
C8_Witness ==
  /\ call.op = "OLEDinit"
  /\ OLED_HEIGHT = 16
  /\ Len(bus) = 26

-----------------------------------------------------------------------------
(* C9: OLEDFillScreen. *)

\* C9: OLEDFillScreen(pattern, delay) emits, for each page p = 0 .. pages - 1
\* in increasing order, the page select 0xB0 | p, the two column resets and
\* width data writes of pattern, and nothing else, whatever delay is.
C9_FillScreenSequence ==
  call.op = "OLEDFillScreen" =>
     LET pages  == OLED_HEIGHT \div 8
         stride == 3 + OLED_WIDTH
     IN /\ Len(bus) = pages * stride
        /\ \A p \in 0 .. pages - 1 :
             /\ bus[p * stride + 1] = Lit(176 + p)
             /\ bus[p * stride + 2] = Cmd("SSD1306_SET_LOWER_COLUMN", 0)
             /\ bus[p * stride + 3] = Cmd("SSD1306_SET_HIGHER_COLUMN", 0)
             /\ \A i \in 4 .. stride : bus[p * stride + i] = Data(call.a)
        /\ Len(DataWrites) = pages * OLED_WIDTH
        /\ heap = pre.heap

\* A 64-pixel-high panel has been filled with 0xFF with a non-zero delay.
C9_Witness ==
  /\ call.op = "OLEDFillScreen"
  /\ call.a = 255 /\ call.b # 0
  /\ OLED_HEIGHT = 64
  /\ Len(SelectSeq(bus, IsCmd)) = 24

-----------------------------------------------------------------------------
(* C10: how many bits a pixel write changes. *)

\* C10 (original): a drawPixel inside the logical bounds changes exactly one
\* bit of the buffer, whatever the colour and the buffer's contents.
C10_ExactlyOneBitChanges ==
  (call.op = "drawPixel" /\ PreReady /\ InLogicalBounds(call.a, call.b)
     /\ call.s \in Colors) =>
     Cardinality(ChangedBits) = 1

\* C10 (as amended): a drawPixel inside the logical bounds changes no bit
\* other than the one at the computed byte and bit index; that bit changes
\* always for INVERSE, for WHITE only when it was 0 and for BLACK only when it
\* was 1.
C10_AtMostTargetBitChanges ==
  (call.op = "drawPixel" /\ PreReady /\ InLogicalBounds(call.a, call.b)
     /\ call.s \in Colors) =>
     LET target == << TargetByte(call.a, call.b), TargetBit(call.a, call.b) >>
         was    == Bit(BufPre[target[1] + 1], target[2])
     IN /\ ChangedBits \subseteq {target}
        /\ (ChangedBits = {target} <=>
              \/ call.s = "INVERSE"
              \/ (call.s = "WHITE" /\ was = 0)
              \/ (call.s = "BLACK" /\ was = 1))

\* A WHITE pixel has been drawn on a bit that was already 1: no bit changed.
C10_Witness ==
  /\ call.op = "drawPixel" /\ PreReady /\ InLogicalBounds(call.a, call.b)
  /\ call.s = "WHITE"
  /\ ChangedBits = {}

-----------------------------------------------------------------------------
(* C11: INVERSE twice. *)

\* C11: when drawPixel(x, y, INVERSE) is followed directly by the same call
\* (same x, y, same rotation), every caller array is afterwards exactly as it
\* was before the first of the two calls, whatever the buffer held, whatever
\* the rotation and whether or not (x, y) is inside the logical bounds.
C11_InverseTwiceRestores ==
  [][ ( /\ call.op = "drawPixel" /\ call.s = "INVERSE"
        /\ call' = call
        /\ rotation' = rotation )
      => /\ heap' = pre.heap
         /\ OLEDbuffer' = pre.OLEDbuffer ]_vars

\* The second of two INVERSE calls on one pixel has run on a framebuffer of the
\* driver's geometry: it changed the buffer, and the buffer is back to the
\* contents the caller's array had before the first call.
C11_Witness ==
  /\ call.op = "drawPixel" /\ call.s = "INVERSE"
  /\ PreReady /\ InLogicalBounds(call.a, call.b)
  /\ ncalls = 3
  /\ heap # pre.heap
  /\ BufNow = InitArray(Len(BufNow))

-----------------------------------------------------------------------------
(* C12: the address window of OLEDBufferScreen. *)

\* The bus writes of the most recent call before its first data write.
RECURSIVE CommandPrefix(_)
CommandPrefix(writes) ==
  IF writes = <<>> \/ IsData(Head(writes)) THEN <<>>
  ELSE <<Head(writes)>> \o CommandPrefix(Tail(writes))

\* C12: OLEDBufferScreen(x, y, w, h, data), for every rectangle, emits before
\* any data write exactly the commands column-address-window, 0, width - 1,
\* page-address-window, 0, pages - 1 (pages = height / 8), both windows with
\* their start and end argument, and no command write after the first data
\* write.
C12_FullWindowThenData ==
  call.op = "OLEDBufferScreen" =>
     /\ CommandPrefix(bus) =
          << Cmd("SSD1306_SET_COLUMN_ADDR", 0), Lit(0), Lit(OLED_WIDTH - 1),
             Cmd("SSD1306_SET_PAGE_ADDR", 0), Lit(0), Lit((OLED_HEIGHT \div 8) - 1) >>
     /\ \A i \in 1 .. Len(bus) : i > Len(CommandPrefix(bus)) => IsData(bus[i])

-----------------------------------------------------------------------------
(* C13, C15: the loops of OLEDBufferScreen. *)

\* The <<ty, tx>> the claim gives a data write: ty a multiple of 8 below h, tx
\* below w, row y + ty and column x + tx on the panel.
TransferPairs(x, y, w, h) ==
  { p \in (0 .. 255) \X (0 .. 255) :
      /\ p[1] % 8 = 0 /\ p[1] < h /\ p[2] < w
      /\ 0 <= y + p[1] /\ y + p[1] < OLED_HEIGHT
      /\ 0 <= x + p[2] /\ x + p[2] < OLED_WIDTH }

\* C13: OLEDBufferScreen(x, y, w, h, src) emits one data write for each
\* <<ty, tx>> of TransferPairs and no other; the byte sent for <<ty, tx>> is
\* src[w * (ty / 8) + tx]; the source offsets of consecutive data writes are
\* strictly increasing; when the call has returned every pair has had its
\* write.
C13_OneWritePerPair ==
  loop.pc # "idle" =>
     /\ loop.sent \subseteq TransferPairs(loop.x, loop.y, loop.w, loop.h)
     /\ ~loop.resent
     /\ loop.ordered
     /\ (loop.last # <<>> =>
           /\ loop.last[3] = loop.w * (loop.last[1] \div 8) + loop.last[2]
           /\ loop.last[4] = heap[LoopSource][loop.last[3] + 1])
     /\ (loop.pc = "done" =>
           loop.sent = TransferPairs(loop.x, loop.y, loop.w, loop.h))

\* C15: every OLEDBufferScreen call returns, for every w and h in 0 .. 255.
C15_TransferTerminates ==
  (loop.pc \in {"outer", "inner"}) ~> (loop.pc = "done")

-----------------------------------------------------------------------------
(* C14: the pixels of OLEDBitmap. *)

\* The colour the claim gives pixel (i, j) of a bitmap of width w: bit
\* 7 - (i mod 8) of data[j * (w / 8) + i / 8], MSB first, swapped by invert.
BitmapColor(i, j, w, invert) ==
  LET bit == Bit(BitmapBytes[j * (w \div 8) + (i \div 8) + 1], 7 - (i % 8))
  IN IF (bit = 1) # invert THEN "WHITE" ELSE "BLACK"

\* C14: an OLEDBitmap(x, y, w, h, data, invert) call that passes the four
\* checks returns OLED_Success and, unless it faults, calls drawPixel exactly
\* once per (i, j), 0 <= i < w, 0 <= j < h, at (x + i, y + j) with the colour
\* of BitmapColor, row by row; on a framebuffer of the driver's geometry each
\* pixel of the rectangle that is on the screen ends with its colour and no
\* bit outside the rectangle changes.
C14_BitmapPixelCalls ==
  (call.op = "OLEDBitmap" /\ FirstFailingCheck(call) = "OLED_Success") =>
     LET x == call.a
         y == call.b
         w == call.c
         h == call.d
         rect == { p \in (0 .. w - 1) \X (0 .. h - 1) : InLogicalBounds(x + p[1], y + p[2]) }
     IN /\ ret = "OLED_Success"
        /\ errlog = 0
        /\ (~halted =>
              /\ Len(pixcalls) = w * h
              /\ \A i \in 0 .. w - 1 : \A j \in 0 .. h - 1 :
                   pixcalls[j * w + i + 1] = <<x + i, y + j, BitmapColor(i, j, w, call.f)>>)
        /\ (PreReady =>
              /\ ~halted
              /\ \A p \in rect :
                   Bit(BufNow[TargetByte(x + p[1], y + p[2]) + 1],
                       TargetBit(x + p[1], y + p[2]))
                     = (IF BitmapColor(p[1], p[2], w, call.f) = "WHITE" THEN 1 ELSE 0)
              /\ ChangedBits \subseteq
                   { <<TargetByte(x + p[1], y + p[2]), TargetBit(x + p[1], y + p[2])>> :
                       p \in rect }
              /\ OthersUnchanged)

\* An inverted 8 x 2 bitmap has been drawn on a framebuffer of the driver's
\* geometry and changed it.
C14_Witness ==
  /\ call.op = "OLEDBitmap" /\ FirstFailingCheck(call) = "OLED_Success"
  /\ PreReady /\ call.f
  /\ Len(pixcalls) = 16
  /\ heap # pre.heap

-----------------------------------------------------------------------------
(* C16: the display RAM after OLEDupdate. *)

\* The controller in horizontal addressing mode, as the claim models it: a
\* column window and a page window, a write pointer <<page, col>> and the
\* display RAM (-1: never written).  want lists the argument bytes the last
\* command still expects.
ControllerReset ==
  [colStart |-> 0, colEnd |-> 127, pageStart |-> 0, pageEnd |-> 7,
   col |-> 0, page |-> 0, want |-> <<>>,
   ram |-> [p \in 0 .. 7 |-> [c \in 0 .. 127 |-> -1]]]

\* The controller after one bus write.  An argument byte fills the next
\* expected field; a window's start argument moves the write pointer to it.  A
\* data write stores the byte at the pointer and advances it: next column, and
\* at the window's last column the first column of the next page, and at the
\* window's last page the first page.
ControllerStep(ct, wr) ==
  IF IsData(wr)
  THEN [ct EXCEPT !.ram[ct.page][ct.col] = wr.arg,
                  !.col  = IF ct.col = ct.colEnd THEN ct.colStart ELSE ct.col + 1,
                  !.page = IF ct.col # ct.colEnd THEN ct.page
                           ELSE IF ct.page = ct.pageEnd THEN ct.pageStart
                           ELSE ct.page + 1]
  ELSE IF ct.want # <<>>
  THEN LET field == Head(ct.want)
           next  == [ct EXCEPT !.want = Tail(@)]
       IN CASE field = "colStart"  -> [next EXCEPT !.colStart = wr.arg, !.col = wr.arg]
            [] field = "colEnd"    -> [next EXCEPT !.colEnd = wr.arg]
            [] field = "pageStart" -> [next EXCEPT !.pageStart = wr.arg, !.page = wr.arg]
            [] field = "pageEnd"   -> [next EXCEPT !.pageEnd = wr.arg]
  ELSE IF wr.op = "SSD1306_SET_COLUMN_ADDR" THEN [ct EXCEPT !.want = <<"colStart", "colEnd">>]
  ELSE IF wr.op = "SSD1306_SET_PAGE_ADDR" THEN [ct EXCEPT !.want = <<"pageStart", "pageEnd">>]
  ELSE ct

RECURSIVE ControllerRun(_, _)
ControllerRun(ct, writes) ==
  IF writes = <<>> THEN ct
  ELSE ControllerRun(ControllerStep(ct, Head(writes)), Tail(writes))

\* C16: for height 16, 32 or 64 and a framebuffer of the driver's geometry,
\* after OLEDupdate the display RAM of a controller in horizontal addressing
\* mode equals the framebuffer: RAM[p][c] = buffer[width * p + c] for every
\* page p and column c of the panel, whatever drawing calls came before.
C16_RamEqualsBuffer ==
  (call.op = "OLEDupdate" /\ PreReady /\ OLED_HEIGHT \in {16, 32, 64}) =>
     LET ct == ControllerRun(ControllerReset, bus)
     IN /\ \A p \in 0 .. (OLED_HEIGHT \div 8) - 1 : \A c \in 0 .. OLED_WIDTH - 1 :
             ct.ram[p][c] = BufNow[OLED_WIDTH * p + c + 1]
        /\ ct.want = <<>>

\* A framebuffer that a drawing call has changed has been pushed to a
\* 32-pixel-high panel.
C16_Witness ==
  /\ call.op = "OLEDupdate" /\ PreReady /\ OLED_HEIGHT = 32
  /\ BufNow # InitArray(Len(BufNow))
  /\ ControllerRun(ControllerReset, bus).ram[3][OLED_WIDTH - 1] = BufNow[Len(BufNow)]

-----------------------------------------------------------------------------
(* C17: a failing OLEDSetBufferPtr. *)

\* C17: an OLEDSetBufferPtr call that fails, on the size test or on the null
\* test, leaves the stored buffer handle as it was before the call.
C17_FailedSetKeepsHandle ==
  (call.op = "OLEDSetBufferPtr" /\ ret = "false") => OLEDbuffer = pre.OLEDbuffer

-----------------------------------------------------------------------------
(* C18: drawing without a buffer. *)

\* C18: while the stored handle is null, drawPixel, OLEDBitmap,
\* OLEDclearBuffer and OLEDupdate access no memory through it and the
\* processor keeps running.
C18_NullHandleNotDereferenced ==
  (call.op \in BufferOps /\ pre.OLEDbuffer = NullPtr) =>
     /\ touched = {}
     /\ ~halted

-----------------------------------------------------------------------------
(* C19: separation of buffer and bus effects. *)

BufferOnlyOps == {"drawPixel", "OLEDBitmap", "OLEDclearBuffer", "OLEDSetBufferPtr"}

BusOnlyOps ==
  {"OLEDupdate", "OLEDFillScreen", "OLEDFillPage", "OLEDPowerDown", "OLEDEnable",
   "OLEDContrast", "OLEDInvert", "OLEDStartScrollRight", "OLEDStartScrollLeft",
   "OLEDStartScrollDiagRight", "OLEDStartScrollDiagLeft", "OLEDStopScroll"}

\* C19: drawPixel, OLEDBitmap, OLEDclearBuffer and OLEDSetBufferPtr emit no
\* bus write; OLEDupdate, OLEDFillScreen, OLEDFillPage, the power, contrast
\* and invert controls and the scroll start and stop operations leave every
\* byte of every caller array, the stored handle and the rotation unchanged.
C19_BufferAndBusSeparate ==
  /\ (call.op \in BufferOnlyOps => bus = <<>>)
  /\ (call.op \in BusOnlyOps =>
        /\ heap = pre.heap
        /\ OLEDbuffer = pre.OLEDbuffer
        /\ rotation = pre.rotation
        /\ pixcalls = <<>>)

\* One page of the display has been filled while a drawn-on framebuffer of
\* rotation 2 was in place.
C19_Witness ==
  /\ call.op = "OLEDFillPage" /\ PreReady
  /\ rotation = 2
  /\ Len(DataWrites) = OLED_WIDTH

====
